---- MODULE Spec2Model ----
(***************************************************************************)
(* A model of the two lab modules of the repository:                       *)
(*   src/lab4/classification.py  confusion matrix and the binary metrics   *)
(*   src/lab3/lss.py             least-squares polynomial fit, evaluation  *)
(*                               and printing of the fitted polynomial     *)
(*                                                                         *)
(* Every function of the code is an operator computed as the code computes *)
(* it.  A call is a state machine of its own: (op, args, ret) hold one     *)
(* sequential call, and (pc, frame, out) hold the calls that two threads   *)
(* run statement by statement.                                             *)
(*                                                                         *)
(* Numbers.  Python ints are unbounded; the inputs below keep every value  *)
(* inside the 32-bit integers of TLC.  A Python float that the code        *)
(* computes by divisions and matrix products is kept as the exact rational *)
(* it approximates (a record [n, d] in lowest terms): rounding error of    *)
(* the last bits is not represented.  Where rounding decides the KIND of   *)
(* outcome (the inversion of a singular matrix) every outcome is modelled. *)
(* Strings are sequences of one-character strings.                         *)
(***************************************************************************)
EXTENDS Integers, Sequences, FiniteSets, TLC

VARIABLES
    op,      \* sequential call: the function called
    args,    \* sequential call: its arguments, as the caller passed them
    ret,     \* sequential call: Pending, then what the call returned or raised
    pc,      \* per thread: where the thread's call stands
    frame,   \* per thread: the call's arguments and local variables
    out      \* per thread: Pending, then what the call returned or raised

vars == <<op, args, ret, pc, frame, out>>

\* ------------------------------------------------------------------ bounds

\* Longest label sequence over the valid binary labels {0, 1}.
MaxLen == 4
\* Longest label sequence that may hold labels outside [0, num_classes).
MaxWildLen == 2
\* Largest num_classes passed to get_confusion_matrix.
MaxClasses == 3
\* Largest number N of samples of a fit, and of evaluation points.
MaxN == 4
\* Largest number of coefficients printed, and largest precision.
MaxTerms == 3
MaxPrecision == 2

\* ------------------------------------------------------- shared helpers

SeqsUpTo(S, n) == UNION {[1..k -> S] : k \in 0..n}

Abs(x) == IF x < 0 THEN 0 - x ELSE x

RECURSIVE Gcd(_, _)
Gcd(a, b) == IF b = 0 THEN a ELSE Gcd(b, a % b)

\* The rational n/d (d # 0) in lowest terms with a positive denominator.
Rat(n, d) ==
    LET g == Gcd(Abs(n), Abs(d))
        s == IF d < 0 THEN 0 - 1 ELSE 1
    IN  [n |-> (s * n) \div g, d |-> (s * d) \div g]

RatAdd(a, b) == Rat(a.n * b.d + b.n * a.d, a.d * b.d)
RatScale(a, k) == Rat(a.n * k, a.d)

\* What a call has not produced yet.
Pending == [kind |-> "pending", value |-> <<>>]

\* A raised exception: its class and its message.
Raise(class, message) == [kind |-> class, value |-> message]

\* ------------------------------------------------ lab4/classification.py

\* matrix = [[0] * num_classes for _ in range(num_classes)]
ZeroMatrix(num_classes) ==
    [a \in 0..(num_classes - 1) |-> [p \in 0..(num_classes - 1) |-> 0]]

\* A Python list subscript: a negative index counts from the end of the list.
PyIndex(k, n) == IF k < 0 THEN k + n ELSE k
PyIndexOk(k, n) == PyIndex(k, n) \in 0..(n - 1)

\* matrix[actual][predicted] += 1, with both subscripts in range, counted at [predicted][actual].
IncrementTransposed(matrix, actual, predicted, num_classes) ==
    [matrix EXCEPT ![PyIndex(predicted, num_classes)][PyIndex(actual, num_classes)] = @ + 1]

\* matrix[actual][predicted] += 1, with both subscripts in range.
Increment(matrix, actual, predicted, num_classes) ==
    [matrix EXCEPT ![PyIndex(actual, num_classes)][PyIndex(predicted, num_classes)] = @ + 1]

\* One iteration of the loop of get_confusion_matrix on the pair (actual, predicted):
\* the matrix after it, or the exception that leaves the loop.
LoopBody(matrix, actual, predicted, num_classes) ==
    IF actual >= num_classes \/ predicted >= num_classes
    THEN Raise("ValueError", "Invalid prediction classes!")
    ELSE IF ~PyIndexOk(actual, num_classes) \/ ~PyIndexOk(predicted, num_classes)
    THEN Raise("IndexError", "list index out of range")
    ELSE [kind |-> "matrix", value |-> Increment(matrix, actual, predicted, num_classes)]

\* The loop over zip(y_true, y_pred) from pair k on.
RECURSIVE CountFrom(_, _, _, _, _)
CountFrom(matrix, y_true, y_pred, num_classes, k) ==
    IF k > Len(y_true) \/ k > Len(y_pred)
    THEN [kind |-> "matrix", value |-> matrix]
    ELSE LET r == LoopBody(matrix, y_true[k], y_pred[k], num_classes)
         IN  IF r.kind # "matrix" THEN r
             ELSE CountFrom(r.value, y_true, y_pred, num_classes, k + 1)

\* get_confusion_matrix with the length check left out: zip stops at the shorter list.
get_confusion_matrix_unchecked(y_true, y_pred, num_classes) ==
    CountFrom(ZeroMatrix(num_classes), y_true, y_pred, num_classes, 1)

get_confusion_matrix(y_true, y_pred, num_classes) ==
    IF Len(y_true) # Len(y_pred)
    THEN Raise("ValueError", "Invalid input shapes!")
    ELSE CountFrom(ZeroMatrix(num_classes), y_true, y_pred, num_classes, 1)

\* The tuple read with FP and FN exchanged.
QualityFactorsSwapped(matrix) == <<matrix[0][0], matrix[1][0], matrix[0][1], matrix[1][1]>>

\* return matrix[0][0], matrix[0][1], matrix[1][0], matrix[1][1]
QualityFactors(matrix) == <<matrix[0][0], matrix[0][1], matrix[1][0], matrix[1][1]>>

\* The tuple (TN, FP, FN, TP), or the exception of get_confusion_matrix.
get_quality_factors(y_true, y_pred) ==
    LET r == get_confusion_matrix(y_true, y_pred, 2)
    IN  IF r.kind # "matrix" THEN r
        ELSE [kind |-> "tuple", value |-> QualityFactors(r.value)]

\* Python's a / b on two ints.
TrueDiv(a, b) ==
    IF b = 0 THEN Raise("ZeroDivisionError", "division by zero")
    ELSE [kind |-> "float", value |-> Rat(a, b)]

\* The return expression of each metric on the tuple q = (TN, FP, FN, TP).
AccuracyOf(q) == TrueDiv(q[4] + q[1], q[4] + q[3] + q[2] + q[1])
PrecisionOf(q) == TrueDiv(q[4], q[4] + q[2])
RecallOf(q) == TrueDiv(q[4], q[4] + q[3])
F1Of(q) == TrueDiv(2 * q[4], 2 * q[4] + q[2] + q[3])

MetricNames == {"accuracy_score", "precision_score", "recall_score", "f1_score"}

\* The return expression of metric m.
Derive(m, q) ==
    CASE m = "accuracy_score" -> AccuracyOf(q)
      [] m = "precision_score" -> PrecisionOf(q)
      [] m = "recall_score" -> RecallOf(q)
      [] m = "f1_score" -> F1Of(q)

\* A metric function: the tuple, then the return expression.
Metric(m, y_true, y_pred) ==
    LET f == get_quality_factors(y_true, y_pred)
    IN  IF f.kind # "tuple" THEN f ELSE Derive(m, f.value)

accuracy_score(y_true, y_pred) == Metric("accuracy_score", y_true, y_pred)
precision_score(y_true, y_pred) == Metric("precision_score", y_true, y_pred)
recall_score(y_true, y_pred) == Metric("recall_score", y_true, y_pred)
f1_score(y_true, y_pred) == Metric("f1_score", y_true, y_pred)

\* ------------------------------------------------------- lab3/lss.py

\* numpy's integer power; x ** 0 is 1 for every x, 0 included.
RECURSIVE Pow(_, _)
Pow(x, k) == IF k = 0 THEN 1 ELSE x * Pow(x, k - 1)

\* The sum of f[lo] .. f[hi].
RECURSIVE SumTo(_, _, _)
SumTo(f, lo, hi) == IF lo > hi THEN 0 ELSE f[lo] + SumTo(f, lo + 1, hi)

\* np.vander(X, n) with its default, increasing=False: column k holds X^(n-k).
vander_decreasing(X, n) ==
    [i \in 1..Len(X) |-> [k \in 1..n |-> Pow(X[i], n - k)]]

\* np.vander(X, n, increasing=True): an N x n matrix (a sequence of rows), the
\* k-th column holding X^(k-1).
vander(X, n) ==
    [i \in 1..Len(X) |-> [k \in 1..n |-> Pow(X[i], k - 1)]]

\* M.T for an N x n matrix M (n is given, since M may have no rows).
Transpose(M, n) == [k \in 1..n |-> [i \in 1..Len(M) |-> M[i][k]]]

\* A @ B for an r x m matrix A and an m x n matrix B.
MatMul(A, B, n) ==
    [i \in 1..Len(A) |-> [j \in 1..n |->
        SumTo([l \in 1..Len(B) |-> A[i][l] * B[l][j]], 1, Len(B))]]

\* A @ v for an r x m matrix A and a vector v of length m.
MatVec(A, v) ==
    [i \in 1..Len(A) |-> SumTo([l \in 1..Len(v) |-> A[i][l] * v[l]], 1, Len(v))]

\* The square matrix A without row r and column c.
Minor(A, r, c) ==
    LET n == Len(A)
        skip(k, x) == IF k < x THEN k ELSE k + 1
    IN  [i \in 1..(n - 1) |-> [j \in 1..(n - 1) |-> A[skip(i, r)][skip(j, c)]]]

Sign(k) == IF k % 2 = 0 THEN 1 ELSE 0 - 1

\* The determinant, by expansion along the first row.
RECURSIVE Det(_)
Det(A) ==
    IF Len(A) = 0 THEN 1
    ELSE SumTo([j \in 1..Len(A) |-> Sign(1 + j) * A[1][j] * Det(Minor(A, 1, j))],
               1, Len(A))

\* The adjugate: the transposed matrix of cofactors, so that A^-1 = Adjugate(A) / Det(A).
Adjugate(A) ==
    [i \in 1..Len(A) |-> [j \in 1..Len(A) |-> Sign(i + j) * Det(Minor(A, j, i))]]

IsPowerOfTwo(k) == k \in {Pow(2, e) : e \in 0..30}

\* a / b (b # 0) has a finite binary expansion, so a binary float can hold it.
Dyadic(a, b) == IsPowerOfTwo(Abs(b) \div Gcd(Abs(a), Abs(b)))

\* The first row among k..n with the largest |A[i][k]|: the pivot row that the
\* LU factorisation with partial pivoting (LAPACK getrf, behind np.linalg.inv)
\* takes in column k.
PivotRow(A, k) ==
    CHOOSE p \in k..Len(A) :
        /\ \A i \in k..Len(A) : Abs(A[p][k]) >= Abs(A[i][k])
        /\ \A i \in k..(p - 1) : Abs(A[i][k]) < Abs(A[p][k])

SwapRows(A, k, p) == [A EXCEPT ![k] = A[p], ![p] = A[k]]

\* The elimination of getrf on an integer matrix, from column k on, carried out
\* without fractions (each entry is the float entry times the previous pivot
\* `prev`).  TRUE when it meets a zero pivot having formed only multipliers that
\* a binary float holds exactly: then every operation is exact in floating
\* point, and the zero pivot is found.  FALSE when some multiplier must be
\* rounded: then the pivots that follow are rounding residues.
RECURSIVE ExactElimination(_, _, _)
ExactElimination(A, k, prev) ==
    IF k > Len(A) THEN TRUE
    ELSE LET p == PivotRow(A, k)
             B == SwapRows(A, k, p)
         IN  IF B[k][k] = 0 THEN TRUE
             ELSE IF \E i \in (k + 1)..Len(B) : ~Dyadic(B[i][k], B[k][k]) THEN FALSE
             ELSE ExactElimination(
                      [i \in 1..Len(B) |-> [j \in 1..Len(B) |->
                          IF i > k /\ j > k
                          THEN (B[k][k] * B[i][j] - B[i][k] * B[k][j]) \div prev
                          ELSE B[i][j]]],
                      k + 1, B[k][k])

\* Marks a float that exact arithmetic does not determine (the quotient by a
\* pivot that is only a rounding residue: a huge finite value, or inf / nan).
Unspecified == [n |-> 1, d |-> 0]

\* np.linalg.inv(A) for a square integer matrix A: the set of its outcomes.
\* The inverse is held as an integer matrix `num` over a common denominator
\* `den`.  inv raises LinAlgError("Singular matrix") only when the factorisation
\* meets a pivot that is exactly zero.  For a matrix that is singular in exact
\* arithmetic this is certain when the elimination is exact; otherwise the
\* last pivot is a rounding residue, zero or not depending on the rounding of
\* the build (BLAS kernel, fused multiply-add), and with a non-zero residue inv
\* returns a matrix of unspecified values without any error.
inv(A) ==
    IF Det(A) # 0
    THEN {[kind |-> "ndarray", num |-> Adjugate(A), den |-> Det(A)]}
    ELSE IF ExactElimination(A, 1, 1)
    THEN {Raise("LinAlgError", "Singular matrix")}
    ELSE {Raise("LinAlgError", "Singular matrix"),
          [kind |-> "ndarray", num |-> A, den |-> 0]}

\* theta = np.linalg.inv(X_poly.T @ X_poly) @ X_poly.T @ Y, then
\* theta.reshape(-1, 1): a column, one row <<coefficient>> per power.
\* The set of outcomes of the call.
least_squares_solution(X, Y, polynomial_degree) ==
    LET n == polynomial_degree + 1
        X_poly == vander(X, n)
        XT == Transpose(X_poly, n)
        solve(I) ==
            IF I.kind # "ndarray" THEN I
            ELSE IF I.den = 0
            THEN [kind |-> "ndarray", value |-> [k \in 1..n |-> <<Unspecified>>]]
            ELSE LET t == MatVec(MatMul(I.num, XT, Len(X)), Y)
                 IN  [kind |-> "ndarray",
                      value |-> [k \in 1..n |-> <<Rat(t[k], I.den)>>]]
    IN  {solve(I) : I \in inv(MatMul(XT, X_poly, n))}

\* coeff * X ** degree for one row coeff of T: the row, of shape (1,), is
\* broadcast over the vector X.
Term(coeff, X, degree) ==
    [i \in 1..Len(X) |-> RatScale(coeff[1], Pow(X[i], degree))]

\* Python's sum() over the list of terms from term k on: acc + term + ...
\* acc is the int 0 at first, which numpy adds to every entry of the first term.
RECURSIVE SumTerms(_, _, _)
SumTerms(acc, terms, k) ==
    IF k > Len(terms) THEN acc
    ELSE SumTerms(
             IF acc.kind = "int"
             THEN [kind |-> "ndarray",
                   value |-> [i \in 1..Len(terms[k]) |-> RatAdd(Rat(acc.value, 1), terms[k][i])]]
             ELSE [kind |-> "ndarray",
                   value |-> [i \in 1..Len(terms[k]) |-> RatAdd(acc.value[i], terms[k][i])]],
             terms, k + 1)

\* enumerate(T, 1): the k-th row multiplies X^k instead of X^(k-1).
generalised_linear_model_from_one(X, T) ==
    SumTerms([kind |-> "int", value |-> 0],
             [k \in 1..Len(T) |-> Term(T[k], X, k)], 1)

\* return sum([coeff * X ** degree for degree, coeff in enumerate(T)])
generalised_linear_model(X, T) ==
    SumTerms([kind |-> "int", value |-> 0],
             [k \in 1..Len(T) |-> Term(T[k], X, k - 1)], 1)

\* ------------------------------------------- sequential calls of lab4

\* Labels around the valid range of num_classes: below -num_classes, -1, the
\* valid labels, and num_classes itself.
WildLabels(num_classes) == {0 - (num_classes + 1), 0 - 1} \cup 0..num_classes

\* The label sequences of a call: over the binary labels up to MaxLen (wild
\* FALSE), or over the labels around the valid range up to MaxWildLen.
LabelSeqs(wild, num_classes) ==
    IF wild THEN SeqsUpTo(WildLabels(num_classes), MaxWildLen)
    ELSE SeqsUpTo({0, 1}, MaxLen)

\* The values of num_classes: any for get_confusion_matrix itself; the metrics
\* take none (get_quality_factors passes 2).
ClassCounts(o) == IF o = "get_confusion_matrix" THEN 1..MaxClasses ELSE {2}

\* No thread runs: the call is the only one in the process.
NoThreads ==
    /\ pc = <<>>
    /\ frame = <<>>
    /\ out = <<>>

InitMetrics ==
    /\ op \in {"get_confusion_matrix"} \cup MetricNames
    /\ \E nc \in ClassCounts(op), wild \in BOOLEAN :
         \E yt \in LabelSeqs(wild, nc), yp \in LabelSeqs(wild, nc) :
            args = [y_true |-> yt, y_pred |-> yp, num_classes |-> nc]
    /\ ret = Pending
    /\ NoThreads

Call_get_confusion_matrix ==
    /\ op = "get_confusion_matrix"
    /\ ret = Pending
    /\ ret' = get_confusion_matrix(args.y_true, args.y_pred, args.num_classes)
    /\ UNCHANGED <<op, args, pc, frame, out>>

Call_accuracy_score ==
    /\ op = "accuracy_score"
    /\ ret = Pending
    /\ ret' = accuracy_score(args.y_true, args.y_pred)
    /\ UNCHANGED <<op, args, pc, frame, out>>

Call_precision_score ==
    /\ op = "precision_score"
    /\ ret = Pending
    /\ ret' = precision_score(args.y_true, args.y_pred)
    /\ UNCHANGED <<op, args, pc, frame, out>>

Call_recall_score ==
    /\ op = "recall_score"
    /\ ret = Pending
    /\ ret' = recall_score(args.y_true, args.y_pred)
    /\ UNCHANGED <<op, args, pc, frame, out>>

Call_f1_score ==
    /\ op = "f1_score"
    /\ ret = Pending
    /\ ret' = f1_score(args.y_true, args.y_pred)
    /\ UNCHANGED <<op, args, pc, frame, out>>

NextMetrics ==
    \/ Call_get_confusion_matrix
    \/ Call_accuracy_score
    \/ Call_precision_score
    \/ Call_recall_score
    \/ Call_f1_score

SpecMetrics == InitMetrics /\ [][NextMetrics]_vars

\* ---------------------------------------- lab3/lss.py: print_polynomial

DigitChar(k) == <<"0", "1", "2", "3", "4", "5", "6", "7", "8", "9">>[k + 1]

\* str(k) for an int k >= 0.
RECURSIVE IntToStr(_)
IntToStr(k) ==
    IF k < 10 THEN <<DigitChar(k)>> ELSE IntToStr(k \div 10) \o <<DigitChar(k % 10)>>

\* The lowest `width` decimal digits of k, zero-padded on the left.
RECURSIVE Padded(_, _)
Padded(k, width) ==
    IF width = 0 THEN <<>> ELSE Padded(k \div 10, width - 1) \o <<DigitChar(k % 10)>>

\* |r| * 10^p rounded to an integer, ties to even: format() rounds the exact
\* value of the float, and r (a float with a finite binary expansion) is exact.
RoundedScaled(r, p) ==
    LET scaled == Abs(r.n) * Pow(10, p)
        k == scaled \div r.d
        rem == scaled % r.d
    IN  IF 2 * rem > r.d \/ (2 * rem = r.d /\ k % 2 = 1) THEN k + 1 ELSE k

\* format(r, '.<p>f'): sign, integer digits and, for p > 0, the point and
\* exactly p fractional digits.
Format(r, p) ==
    LET k == RoundedScaled(r, p)
    IN  (IF r.n < 0 THEN <<"-">> ELSE <<>>)
        \o IntToStr(k \div Pow(10, p))
        \o (IF p > 0 THEN <<".">> \o Padded(k % Pow(10, p), p) ELSE <<>>)

\* while polynomial.endswith('0') and polynomial[-2] != '.':
\*     polynomial = polynomial[:-1]
\* on the whole string built so far; polynomial[-2] of a one-character string
\* raises IndexError.
RECURSIVE StripLoop(_)
StripLoop(polynomial) ==
    IF Len(polynomial) = 0 \/ polynomial[Len(polynomial)] # "0"
    THEN [kind |-> "str", value |-> polynomial]
    ELSE IF Len(polynomial) < 2
    THEN Raise("IndexError", "string index out of range")
    ELSE IF polynomial[Len(polynomial) - 1] # "."
    THEN StripLoop(SubSeq(polynomial, 1, Len(polynomial) - 1))
    ELSE [kind |-> "str", value |-> polynomial]

\* The body of the for loop for index i (from 0) of a theta of `size` rows:
\* the string after it, or the exception.
PrintBody(polynomial, theta, precission, i) ==
    LET s == StripLoop(polynomial \o Format(theta[i + 1][1], precission))
    IN  IF s.kind # "str" THEN s
        ELSE [kind |-> "str",
              value |-> s.value \o <<"*", "x", "^">> \o IntToStr(i)
                        \o (IF i # Len(theta) - 1 THEN <<" ", "+", " ">> ELSE <<>>)]

\* The for loop from index i on.
RECURSIVE PrintFrom(_, _, _, _)
PrintFrom(polynomial, theta, precission, i) ==
    IF i >= Len(theta) THEN [kind |-> "str", value |-> polynomial]
    ELSE LET r == PrintBody(polynomial, theta, precission, i)
         IN  IF r.kind # "str" THEN r
             ELSE PrintFrom(r.value, theta, precission, i + 1)

print_polynomial(theta, precission) == PrintFrom(<<>>, theta, precission, 0)

\* Coefficients that binary floats hold exactly.
CoefFloats ==
    {Rat(0 - 5, 2), Rat(0 - 1, 4), Rat(0, 1), Rat(1, 4), Rat(3, 4), Rat(1, 1),
     Rat(10, 1), Rat(21, 2)}

PolyArgs ==
    {[theta |-> [k \in 1..Len(t) |-> <<t[k]>>], precission |-> p] :
        t \in SeqsUpTo(CoefFloats, MaxTerms), p \in 0..MaxPrecision}

InitPoly ==
    /\ op = "print_polynomial"
    /\ args \in PolyArgs
    /\ ret = Pending
    /\ NoThreads

Call_print_polynomial ==
    /\ op = "print_polynomial"
    /\ ret = Pending
    /\ ret' = print_polynomial(args.theta, args.precission)
    /\ UNCHANGED <<op, args, pc, frame, out>>

NextPoly == Call_print_polynomial

SpecPoly == InitPoly /\ [][NextPoly]_vars

\* ------------------------------------------- sequential calls of lab3

\* Sample abscissae, the degrees fitted, and the coefficients of the
\* polynomials the samples are taken from.  With these every intermediate
\* product of the fit stays inside the 32-bit integers of TLC.
XVals == 0..4
Degrees == 0..2
CoefVals == {0 - 1, 0, 1}

\* The value at x of the polynomial with coefficients c (c[k] of power k-1),
\* by Horner's rule.
RECURSIVE Horner(_, _, _)
Horner(c, x, k) == IF k > Len(c) THEN 0 ELSE c[k] + x * Horner(c, x, k + 1)

PolyValues(c, X) == [i \in 1..Len(X) |-> Horner(c, X[i], 1)]

CoefTuples(d) == [1..(d + 1) -> CoefVals]

\* The fit sums over the samples, so their order is immaterial: the samples
\* are taken with X non-decreasing.
SampleXs ==
    {x \in SeqsUpTo(XVals, MaxN) : \A i \in 1..(Len(x) - 1) : x[i] <= x[i + 1]}

\* Evaluation points and coefficients of the evaluator's own calls.
EvalPoints == {0 - 1, 0, 2}
ThetaVals == {Rat(0 - 5, 2), Rat(0, 1), Rat(1, 1)}

LssArgs(o) ==
    IF o = "least_squares_solution"
    THEN {[X |-> x, Y |-> PolyValues(c, x), polynomial_degree |-> d] :
             x \in SampleXs, c \in UNION {CoefTuples(e) : e \in Degrees}, d \in Degrees}
    ELSE {[X |-> x, T |-> [k \in 1..Len(t) |-> <<t[k]>>]] :
             x \in SeqsUpTo(EvalPoints, MaxN),
             t \in UNION {[1..(d + 1) -> ThetaVals] : d \in Degrees}}

InitLSS ==
    /\ op \in {"least_squares_solution", "generalised_linear_model"}
    /\ args \in LssArgs(op)
    /\ ret = Pending
    /\ NoThreads

Call_least_squares_solution ==
    /\ op = "least_squares_solution"
    /\ ret = Pending
    /\ ret' \in least_squares_solution(args.X, args.Y, args.polynomial_degree)
    /\ UNCHANGED <<op, args, pc, frame, out>>

Call_generalised_linear_model ==
    /\ op = "generalised_linear_model"
    /\ ret = Pending
    /\ ret' = generalised_linear_model(args.X, args.T)
    /\ UNCHANGED <<op, args, pc, frame, out>>

NextLSS ==
    \/ Call_least_squares_solution
    \/ Call_generalised_linear_model

SpecLSS == InitLSS /\ [][NextLSS]_vars

\* ------------------------------------------------------------ threads

\* Two threads, each running one call statement by statement.  A call's
\* parameters and local variables live in the frame of the call.
Threads == {1, 2}

\* The frame that holds the local variables of the call of thread t, were
\* `matrix` and `polynomial` module-level names instead of locals.
FrameOfGlobal(t) == 1

\* The frame that holds the local variables of the call of thread t: its own
\* (matrix is bound inside get_confusion_matrix, polynomial inside
\* print_polynomial).
FrameOf(t) == t

EmptyFrame ==
    [op |-> "none", y_true |-> <<>>, y_pred |-> <<>>, num_classes |-> 0,
     theta |-> <<>>, precission |-> 0,
     X |-> <<>>, Y |-> <<>>, T |-> <<>>, polynomial_degree |-> 0,
     matrix |-> <<>>, k |-> 0, q |-> <<>>, polynomial |-> <<>>, i |-> 0]

ThreadSeqs == {<<>>, <<1>>, <<0, 1>>, <<1, 1>>}

ThreadCalls ==
    {[EmptyFrame EXCEPT !.op = o, !.y_true = yt, !.y_pred = yp, !.num_classes = 2] :
        o \in {"get_confusion_matrix"} \cup MetricNames,
        yt \in ThreadSeqs, yp \in ThreadSeqs}
    \cup {[EmptyFrame EXCEPT !.op = "print_polynomial", !.theta = th, !.precission = p] :
             th \in {<<<<Rat(1, 1)>>>>, <<<<Rat(10, 1)>>, <<Rat(0 - 5, 2)>>>>}, p \in {0, 2}}
    \cup {[EmptyFrame EXCEPT !.op = "generalised_linear_model", !.X = <<0, 2>>, !.T = th] :
             th \in {<<<<Rat(1, 1)>>, <<Rat(0 - 5, 2)>>>>}}
    \cup {[EmptyFrame EXCEPT !.op = "least_squares_solution", !.X = <<1, 2, 3>>,
                             !.Y = y, !.polynomial_degree = 1] :
             y \in {<<1, 2, 3>>, <<1, 0, 1>>}}

InitThreads ==
    /\ op = "none"
    /\ args = <<>>
    /\ ret = Pending
    /\ pc = [t \in Threads |-> "call"]
    /\ frame \in [Threads -> ThreadCalls]
    /\ out = [t \in Threads |-> Pending]

CountsSamples(o) == o \in {"get_confusion_matrix"} \cup MetricNames

Finish(t, result) ==
    /\ out' = [out EXCEPT ![t] = result]
    /\ pc' = [pc EXCEPT ![t] = "done"]

\* get_confusion_matrix, lines 16-19: the length test, then the zero matrix.
\* The metrics reach it through get_quality_factors, with num_classes = 2.
CheckShapes(t) ==
    /\ pc[t] = "call"
    /\ CountsSamples(frame[t].op)
    /\ IF Len(frame[t].y_true) # Len(frame[t].y_pred)
       THEN /\ Finish(t, Raise("ValueError", "Invalid input shapes!"))
            /\ UNCHANGED frame
       ELSE /\ frame' = [frame EXCEPT ![FrameOf(t)].matrix = ZeroMatrix(frame[t].num_classes),
                                      ![t].k = 1]
            /\ pc' = [pc EXCEPT ![t] = "loop"]
            /\ UNCHANGED out
    /\ UNCHANGED <<op, args, ret>>

\* get_confusion_matrix, lines 21-24: one iteration of the loop.
CountSample(t) ==
    /\ pc[t] = "loop"
    /\ frame[t].k <= Len(frame[t].y_true)
    /\ LET r == LoopBody(frame[FrameOf(t)].matrix, frame[t].y_true[frame[t].k],
                         frame[t].y_pred[frame[t].k], frame[t].num_classes)
       IN  IF r.kind # "matrix"
           THEN /\ Finish(t, r)
                /\ UNCHANGED frame
           ELSE /\ frame' = [frame EXCEPT ![FrameOf(t)].matrix = r.value,
                                          ![t].k = frame[t].k + 1]
                /\ UNCHANGED <<pc, out>>
    /\ UNCHANGED <<op, args, ret>>

\* get_confusion_matrix, line 26, and for a metric get_quality_factors, line 44.
ReturnMatrix(t) ==
    /\ pc[t] = "loop"
    /\ frame[t].k > Len(frame[t].y_true)
    /\ IF frame[t].op = "get_confusion_matrix"
       THEN /\ Finish(t, [kind |-> "matrix", value |-> frame[FrameOf(t)].matrix])
            /\ UNCHANGED frame
       ELSE /\ frame' = [frame EXCEPT ![t].q = QualityFactors(frame[FrameOf(t)].matrix)]
            /\ pc' = [pc EXCEPT ![t] = "derive"]
            /\ UNCHANGED out
    /\ UNCHANGED <<op, args, ret>>

\* The return statement of the metric.
DeriveMetric(t) ==
    /\ pc[t] = "derive"
    /\ Finish(t, Derive(frame[t].op, frame[t].q))
    /\ UNCHANGED <<op, args, ret, frame>>

\* print_polynomial, line 54.
PrintStart(t) ==
    /\ pc[t] = "call"
    /\ frame[t].op = "print_polynomial"
    /\ frame' = [frame EXCEPT ![FrameOf(t)].polynomial = <<>>, ![t].i = 0]
    /\ pc' = [pc EXCEPT ![t] = "print"]
    /\ UNCHANGED <<op, args, ret, out>>

\* print_polynomial, lines 55-61: one iteration of the loop.
PrintTerm(t) ==
    /\ pc[t] = "print"
    /\ frame[t].i < Len(frame[t].theta)
    /\ LET r == PrintBody(frame[FrameOf(t)].polynomial, frame[t].theta,
                          frame[t].precission, frame[t].i)
       IN  IF r.kind # "str"
           THEN /\ Finish(t, r)
                /\ UNCHANGED frame
           ELSE /\ frame' = [frame EXCEPT ![FrameOf(t)].polynomial = r.value,
                                          ![t].i = frame[t].i + 1]
                /\ UNCHANGED <<pc, out>>
    /\ UNCHANGED <<op, args, ret>>

\* print_polynomial, line 62.
PrintReturn(t) ==
    /\ pc[t] = "print"
    /\ frame[t].i >= Len(frame[t].theta)
    /\ Finish(t, [kind |-> "str", value |-> frame[FrameOf(t)].polynomial])
    /\ UNCHANGED <<op, args, ret, frame>>

\* generalised_linear_model, line 97: a single expression.
Evaluate(t) ==
    /\ pc[t] = "call"
    /\ frame[t].op = "generalised_linear_model"
    /\ Finish(t, generalised_linear_model(frame[t].X, frame[t].T))
    /\ UNCHANGED <<op, args, ret, frame>>

\* least_squares_solution, lines 80-86: numpy expressions on fresh arrays.
Solve(t) ==
    /\ pc[t] = "call"
    /\ frame[t].op = "least_squares_solution"
    /\ \E r \in least_squares_solution(frame[t].X, frame[t].Y, frame[t].polynomial_degree) :
           Finish(t, r)
    /\ UNCHANGED <<op, args, ret, frame>>

NextThreads ==
    \E t \in Threads :
        \/ CheckShapes(t)
        \/ CountSample(t)
        \/ ReturnMatrix(t)
        \/ DeriveMetric(t)
        \/ PrintStart(t)
        \/ PrintTerm(t)
        \/ PrintReturn(t)
        \/ Evaluate(t)
        \/ Solve(t)

SpecThreads == InitThreads /\ [][NextThreads]_vars

\* ------------------------------------------------- claims about lab4

\* Counting by position, independently of the code: the positions of the two
\* sequences that hold true label a and predicted label p.
Positions(y_true, y_pred, a, p) ==
    {i \in 1..Len(y_true) : y_true[i] = a /\ y_pred[i] = p}

RECURSIVE SumOver(_, _)
SumOver(f, S) ==
    IF S = {} THEN 0
    ELSE LET x == CHOOSE y \in S : TRUE IN f[x] + SumOver(f, S \ {x})

CellSum(matrix, n) ==
    SumOver([c \in (0..(n - 1)) \X (0..(n - 1)) |-> matrix[c[1]][c[2]]],
            (0..(n - 1)) \X (0..(n - 1)))

AllLabelsIn(y, n) == \A i \in 1..Len(y) : y[i] \in 0..(n - 1)

Returned == ret # Pending

ExampleTrue == <<0, 1, 1, 0>>
ExamplePred == <<0, 1, 0, 0>>

\* C5: for equal-length sequences whose labels all lie in [0, num_classes),
\* get_confusion_matrix returns a num_classes x num_classes matrix whose cell
\* [a][p] is the number of positions with true label a and predicted label p,
\* so the cells sum to the number of samples; the example gives [[2,0],[1,1]].
C5_ConfusionMatrixCounts ==
    (/\ op = "get_confusion_matrix"
     /\ Returned
     /\ Len(args.y_true) = Len(args.y_pred)
     /\ AllLabelsIn(args.y_true, args.num_classes)
     /\ AllLabelsIn(args.y_pred, args.num_classes))
    => /\ ret.kind = "matrix"
       /\ DOMAIN ret.value = 0..(args.num_classes - 1)
       /\ \A a \in 0..(args.num_classes - 1) :
            /\ DOMAIN ret.value[a] = 0..(args.num_classes - 1)
            /\ \A p \in 0..(args.num_classes - 1) :
                 ret.value[a][p] = Cardinality(Positions(args.y_true, args.y_pred, a, p))
       /\ CellSum(ret.value, args.num_classes) = Len(args.y_true)
       /\ (args.y_true = ExampleTrue /\ args.y_pred = ExamplePred /\ args.num_classes = 2)
            => ret.value = [a \in 0..1 |-> [p \in 0..1 |->
                               IF a = 0 THEN (IF p = 0 THEN 2 ELSE 0) ELSE 1]]

\* C5 witness: the example call has returned its matrix, with two true negatives.
C5_Witness ==
    /\ op = "get_confusion_matrix"
    /\ args.y_true = ExampleTrue /\ args.y_pred = ExamplePred /\ args.num_classes = 2
    /\ ret.kind = "matrix"
    /\ ret.value[0][0] = 2 /\ ret.value[1][0] = 1

\* C6 (as claimed): for equal-length inputs, a label outside [0, num_classes),
\* negative or too large, makes get_confusion_matrix fail with the
\* "invalid class" error, and with no other outcome.
C6_OutOfRangeRaisesInvalidClass ==
    (/\ op = "get_confusion_matrix"
     /\ Returned
     /\ Len(args.y_true) = Len(args.y_pred)
     /\ ~(AllLabelsIn(args.y_true, args.num_classes)
          /\ AllLabelsIn(args.y_pred, args.num_classes)))
    => ret = Raise("ValueError", "Invalid prediction classes!")

\* C7: when the two sequences differ in length, get_confusion_matrix and the
\* four metrics that call it fail with the shape error, whatever labels the
\* sequences hold: no sample is counted and no label is validated first.
C7_ShapeMismatchFirst ==
    (Returned /\ Len(args.y_true) # Len(args.y_pred))
    => ret = Raise("ValueError", "Invalid input shapes!")

\* C7 witness: a metric was called on sequences of different length whose first
\* pair already holds a label that is too large, and it raised the shape error.
C7_Witness ==
    /\ op = "recall_score"
    /\ Len(args.y_true) = 2 /\ Len(args.y_pred) = 1
    /\ args.y_true[1] = 2
    /\ ret = Raise("ValueError", "Invalid input shapes!")

\* The four counts of a binary input, by position.
TNc(a) == Cardinality(Positions(a.y_true, a.y_pred, 0, 0))
FPc(a) == Cardinality(Positions(a.y_true, a.y_pred, 0, 1))
FNc(a) == Cardinality(Positions(a.y_true, a.y_pred, 1, 0))
TPc(a) == Cardinality(Positions(a.y_true, a.y_pred, 1, 1))

BinaryInput(a) ==
    /\ Len(a.y_true) = Len(a.y_pred)
    /\ AllLabelsIn(a.y_true, 2)
    /\ AllLabelsIn(a.y_pred, 2)

\* The metric m is undefined on the input a: its denominator is zero.
ZeroDenominator(m, a) ==
    CASE m = "accuracy_score" -> Len(a.y_true) = 0
      [] m = "precision_score" -> TPc(a) + FPc(a) = 0
      [] m = "recall_score" -> TPc(a) + FNc(a) = 0
      [] m = "f1_score" -> TPc(a) + FPc(a) = 0 \/ TPc(a) + FNc(a) = 0

\* C8 (as claimed): on a binary input for which a metric's denominator is zero
\* the metric yields one kind of outcome, the same for all four metrics: the
\* call's outcome is of the kind that every other metric undefined on the same
\* input produces.
C8_ZeroDenominatorUniform ==
    (/\ op \in MetricNames
     /\ Returned
     /\ BinaryInput(args)
     /\ ZeroDenominator(op, args))
    => \A m \in MetricNames :
         ZeroDenominator(m, args) => Metric(m, args.y_true, args.y_pred).kind = ret.kind

RatMul(a, b) == Rat(a.n * b.n, a.d * b.d)
RatDiv(a, b) == Rat(a.n * b.d, a.d * b.n)

\* The textbook value of metric m on the input a, all denominators non-zero.
Standard(m, a) ==
    LET P == Rat(TPc(a), TPc(a) + FPc(a))
        R == Rat(TPc(a), TPc(a) + FNc(a))
    IN  CASE m = "accuracy_score" ->
               Rat(TPc(a) + TNc(a), TPc(a) + TNc(a) + FPc(a) + FNc(a))
          [] m = "precision_score" -> P
          [] m = "recall_score" -> R
          [] m = "f1_score" -> RatDiv(RatScale(RatMul(P, R), 2), RatAdd(P, R))

AllDenominatorsNonZero(a) ==
    /\ Len(a.y_true) > 0
    /\ TPc(a) + FPc(a) > 0
    /\ TPc(a) + FNc(a) > 0
    /\ TPc(a) > 0

ExampleValue(m) ==
    CASE m = "accuracy_score" -> Rat(3, 4)
      [] m = "precision_score" -> Rat(1, 1)
      [] m = "recall_score" -> Rat(1, 2)
      [] m = "f1_score" -> Rat(2, 3)

\* C9: on a binary input with every denominator non-zero each metric returns
\* its standard value, with TN, FP, FN, TP the counts of the pairs (0,0),
\* (0,1), (1,0), (1,1); the example gives 3/4, 1, 1/2 and 2/3.
C9_StandardMetrics ==
    (/\ op \in MetricNames
     /\ Returned
     /\ BinaryInput(args)
     /\ AllDenominatorsNonZero(args))
    => /\ ret.kind = "float"
       /\ ret.value = Standard(op, args)
       /\ (args.y_true = ExampleTrue /\ args.y_pred = ExamplePred)
            => ret.value = ExampleValue(op)

\* C9 witness: f1_score has returned 2/3 on the example, where precision and
\* recall differ.
C9_Witness ==
    /\ op = "f1_score"
    /\ args.y_true = ExampleTrue /\ args.y_pred = ExamplePred
    /\ ret.kind = "float"
    /\ ret.value = [n |-> 2, d |-> 3]

\* ------------------------------------------------- claims about lab3

Distinct(X) == Cardinality({X[i] : i \in 1..Len(X)})

AsFloats(Y) == [i \in 1..Len(Y) |-> Rat(Y[i], 1)]

\* C1: when N >= d+1, X holds at least d+1 distinct points and Y is exactly a
\* polynomial c of degree <= d at X, least_squares_solution returns d+1
\* coefficients in increasing power, theta[k] = c[k], and
\* generalised_linear_model(X, theta) equals Y; X=[1,2,3,4], Y=[1,4,9,16], d=2
\* gives theta = [0,0,1].
C1_ExactFitRecovered ==
    (/\ op = "least_squares_solution"
     /\ Returned
     /\ Len(args.X) = Len(args.Y)
     /\ Len(args.X) >= args.polynomial_degree + 1
     /\ Distinct(args.X) >= args.polynomial_degree + 1)
    => \A c \in CoefTuples(args.polynomial_degree) :
         (args.Y = PolyValues(c, args.X))
         => /\ ret.kind = "ndarray"
            /\ Len(ret.value) = args.polynomial_degree + 1
            /\ \A k \in 1..(args.polynomial_degree + 1) : ret.value[k] = <<Rat(c[k], 1)>>
            /\ generalised_linear_model(args.X, ret.value)
                 = [kind |-> "ndarray", value |-> AsFloats(args.Y)]
            /\ (args.X = <<1, 2, 3, 4>> /\ args.Y = <<1, 4, 9, 16>>
                  /\ args.polynomial_degree = 2)
                 => ret.value = <<<<Rat(0, 1)>>, <<Rat(0, 1)>>, <<Rat(1, 1)>>>>

\* C1 witness: the fit of degree 2 through (1,1), (2,4), (3,9), (4,16) has
\* returned the coefficients of x^2.
C1_Witness ==
    /\ op = "least_squares_solution"
    /\ args.X = <<1, 2, 3, 4>> /\ args.Y = <<1, 4, 9, 16>> /\ args.polynomial_degree = 2
    /\ ret.kind = "ndarray"
    /\ ret.value[3] = <<[n |-> 1, d |-> 1]>>
    /\ ret.value[1] = <<[n |-> 0, d |-> 1]>>

\* C2 (as claimed): whenever the design matrix lacks full column rank (X holds
\* fewer than d+1 distinct values, which covers d >= N),
\* least_squares_solution ends in the singular-matrix error and returns no
\* coefficients.
C2_RankDeficientRaises ==
    (/\ op = "least_squares_solution"
     /\ Returned
     /\ Distinct(args.X) < args.polynomial_degree + 1)
    => ret = Raise("LinAlgError", "Singular matrix")

\* The sum of theta[k] * x^k over the rows of T, one power at a time.
RECURSIVE PowerSum(_, _, _)
PowerSum(T, x, k) ==
    IF k > Len(T) THEN Rat(0, 1)
    ELSE RatAdd(RatScale(T[k][1], Pow(x, k - 1)), PowerSum(T, x, k + 1))

\* C3: generalised_linear_model(X_eval, theta) returns a vector of length
\* M = |X_eval| whose i-th entry is the sum over k of theta[k] * X_eval[i]^k;
\* it is empty for M = 0, and constant theta[0] for d = 0.
C3_EvaluatorValues ==
    (/\ op = "generalised_linear_model"
     /\ Returned)
    => /\ ret.kind = "ndarray"
       /\ Len(ret.value) = Len(args.X)
       /\ \A i \in 1..Len(args.X) : ret.value[i] = PowerSum(args.T, args.X[i], 1)
       /\ (Len(args.X) = 0) => (ret.value = <<>>)
       /\ (Len(args.T) = 1) => \A i \in 1..Len(args.X) : ret.value[i] = args.T[1][1]

\* C3 witness: theta = [1, 0, -5/2] evaluated at the points -1, 0, 2 has
\* returned -3/2, 1, -9.
C3_Witness ==
    /\ op = "generalised_linear_model"
    /\ args.X = <<0 - 1, 0, 2>>
    /\ args.T = <<<<Rat(1, 1)>>, <<Rat(0, 1)>>, <<Rat(0 - 5, 2)>>>>
    /\ ret.kind = "ndarray"
    /\ ret.value = <<Rat(0 - 3, 2), Rat(1, 1), Rat(0 - 9, 1)>>

\* ------------------------------------- claims about print_polynomial

\* The fractional digits f without their trailing zeros, one digit kept.
RECURSIVE TrimFraction(_)
TrimFraction(f) ==
    IF Len(f) > 1 /\ f[Len(f)] = "0" THEN TrimFraction(SubSeq(f, 1, Len(f) - 1)) ELSE f

\* The coefficient r as the claim renders it: p fractional digits, then the
\* trailing zeros of the fractional part removed, at least one digit kept; the
\* integer part is never touched.
Rendered(r, p) ==
    LET k == RoundedScaled(r, p)
    IN  (IF r.n < 0 THEN <<"-">> ELSE <<>>)
        \o IntToStr(k \div Pow(10, p))
        \o (IF p > 0 THEN <<".">> \o TrimFraction(Padded(k % Pow(10, p), p)) ELSE <<>>)

\* The terms from index i on, joined by " + ".
RECURSIVE Joined(_, _, _)
Joined(theta, p, i) ==
    IF i >= Len(theta) THEN <<>>
    ELSE Rendered(theta[i + 1][1], p) \o <<"*", "x", "^">> \o IntToStr(i)
         \o (IF i + 1 < Len(theta) THEN <<" ", "+", " ">> ELSE <<>>)
         \o Joined(theta, p, i + 1)

\* C4 (as claimed): for every theta and every precision p >= 0,
\* print_polynomial returns the d+1 terms 'ci*x^i' in increasing order joined
\* by ' + ', each ci rendered with p fractional digits and only trailing
\* zeros of its fractional part removed; no digit of an integer part and no
\* character of an earlier term is removed.
C4_PrintedPolynomial ==
    (op = "print_polynomial" /\ Returned)
    => ret = [kind |-> "str", value |-> Joined(args.theta, args.precission, 0)]

\* ------------------------------------------------ claims about threads

\* What the call of frame fr returns when it runs alone.
Alone(fr) ==
    CASE fr.op = "get_confusion_matrix" ->
             {get_confusion_matrix(fr.y_true, fr.y_pred, fr.num_classes)}
      [] fr.op \in MetricNames -> {Metric(fr.op, fr.y_true, fr.y_pred)}
      [] fr.op = "print_polynomial" -> {print_polynomial(fr.theta, fr.precission)}
      [] fr.op = "generalised_linear_model" -> {generalised_linear_model(fr.X, fr.T)}
      [] fr.op = "least_squares_solution" ->
             least_squares_solution(fr.X, fr.Y, fr.polynomial_degree)

\* The objects the caller passed to the call of thread t.
Inputs(t) ==
    <<frame[t].op, frame[t].y_true, frame[t].y_pred, frame[t].num_classes,
      frame[t].theta, frame[t].precission, frame[t].X, frame[t].Y, frame[t].T,
      frame[t].polynomial_degree>>

\* C10: under every interleaving of the statements of two concurrent calls,
\* each call returns what it returns when run alone, and no step of any call
\* changes an input sequence.
C10_CallsIndependent ==
    /\ [](\A t \in Threads : pc[t] = "done" => out[t] \in Alone(frame[t]))
    /\ [][\A t \in Threads : Inputs(t)' = Inputs(t)]_vars

\* C10 witness: thread 1 has returned the matrix of two samples while thread 2,
\* a metric on two other samples, has counted its first sample only.
C10_Witness ==
    /\ pc = [t \in Threads |-> IF t = 1 THEN "done" ELSE "loop"]
    /\ frame[1].op = "get_confusion_matrix" /\ Len(frame[1].y_true) = 2
    /\ out[1].kind = "matrix"
    /\ frame[2].op = "f1_score" /\ Len(frame[2].y_true) = 2 /\ frame[2].k = 2
    /\ frame[1].y_true # frame[2].y_true

====
